---- MODULE Spec2Model ----
(***************************************************************************)
(* Model of the rune scanner scan.R (src/scan.go, the final draft starting *)
(* at line 569) and of its expression interpreter R.X (src/expr.go, the    *)
(* final draft starting at line 96).                                       *)
(*                                                                         *)
(* A behaviour is one program run: a scanner is constructed over a byte    *)
(* buffer (Init), then the caller issues Scan calls and X calls with the   *)
(* expression `gram` of its grammar.  The parse tree is a heap of nodes    *)
(* addressed by identity, because the interpreter keeps pointers to nodes  *)
(* (Tree.Root, the Nodes stack) that may or may not alias.                 *)
(*                                                                         *)
(* SpecCursor is the run of a caller that drives the cursor by hand: Scan, *)
(* Any, Mark, Jump, Snap, Back and X.  The cursors the caller holds are in *)
(* `marks`, each with the fact whether it is the very cell s.Cur points    *)
(* to, because Scan writes that cell in place.                             *)
(*                                                                         *)
(* SpecInput is the run of a caller that passes New any input, the empty   *)
(* one and one of a type New does not know included, and then reads with   *)
(* Scan, Peek and X and prints the scanner.                                *)
(***************************************************************************)
EXTENDS Integers, Sequences, FiniteSets

VARIABLES Buf, gram, Cur, Last, Snapped, State, Err, Heap, Root, Nodes, halt,
          call, nops, marks, snaps

vars == <<Buf, gram, Cur, Last, Snapped, State, Err, Heap, Root, Nodes, halt,
          call, nops, marks, snaps>>

(* ------------------------------ bounds -------------------------------- *)

\* longest input buffer, in bytes
MaxLen == 3

\* number of Scan / X calls the caller issues on one scanner
MaxOps == 3

\* number of calls the caller of SpecCursor issues on one scanner
MaxCalls == 4

\* number of cursors the caller of SpecCursor keeps from Mark
MaxMarks == 1

\* depth the caller of SpecCursor lets the Snapped stack reach
MaxSnaps == 2

\* the count of z.A, z.C, z.M and the maximum of z.MM in the expressions
Reps == 2

(* ----------------------------- constants ------------------------------ *)

tkEOD == 2147483647

tkANY == 2147483647

tkNL == 2147483646

EOD == 2

RuneSelf == 128

RuneError == 65533

\* the nil pointer (Last before the first Scan, the context of an error
\* raised without one, Pop of an empty stack)
Nil == [nil |-> TRUE]

\* the nil node pointer; nodes live in Heap at 1, 2, ...
NilNode == 0

\* the bytes input buffers are made of: 'a', and the two bytes of U+00E9
Bytes == {97, 195, 169}

(* ------------------------------ UTF-8 --------------------------------- *)

\* utf8.DecodeRune(b[off:]) for the one, two and three byte encodings; every
\* other first byte the buffers can hold is an invalid encoding of width 1.
\* off is the 0-based offset; nothing left at off gives width 0.
DecodeRune(b, off) ==
  LET b0 == b[off + 1]
      lo == IF b0 = 224 THEN 160 ELSE 128
      hi == IF b0 = 237 THEN 159 ELSE 191
  IN
  IF off >= Len(b) THEN [r |-> RuneError, ln |-> 0]
  ELSE IF b0 < RuneSelf THEN [r |-> b0, ln |-> 1]
  ELSE IF b0 >= 194 /\ b0 <= 223 /\ off + 1 < Len(b)
          /\ b[off + 2] >= 128 /\ b[off + 2] <= 191
       THEN [r |-> (b0 - 192) * 64 + (b[off + 2] - 128), ln |-> 2]
  ELSE IF b0 >= 224 /\ b0 <= 239 /\ off + 2 < Len(b)
          /\ b[off + 2] >= lo /\ b[off + 2] <= hi
          /\ b[off + 3] >= 128 /\ b[off + 3] <= 191
       THEN [r |-> (b0 - 224) * 4096 + (b[off + 2] - 128) * 64 + (b[off + 3] - 128),
             ln |-> 3]
  ELSE [r |-> RuneError, ln |-> 1]

\* string(r): the UTF-8 encoding of a rune of the basic plane
EncodeRune(r) ==
  IF r < RuneSelf THEN <<r>>
  ELSE IF r < 2048 THEN <<192 + (r \div 64), 128 + (r % 64)>>
  ELSE <<224 + (r \div 4096), 128 + ((r \div 64) % 64), 128 + (r % 64)>>

RECURSIVE Runes(_, _)
\* []rune(v) of a Go string held as its bytes
Runes(b, off) ==
  IF off >= Len(b) THEN <<>>
  ELSE LET d == DecodeRune(b, off) IN <<d.r>> \o Runes(b, off + d.ln)

(* ------------------------------ scanner ------------------------------- *)

BufLen == Len(Buf)

\* the scanner as one value: what the methods of *R read and write
Self == [Cur |-> Cur, Last |-> Last, Snapped |-> Snapped, State |-> State,
         Err |-> Err, Heap |-> Heap, Root |-> Root, Nodes |-> Nodes,
         halt |-> halt]

\* State |= EOD
SetEOD(st) == IF (st \div EOD) % 2 = 1 THEN st ELSE st + EOD

Mark(s) == s.Cur

\* Jump taking the place in the buffer from c and keeping the position counters
JumpPlaceOnly(s, c) ==
  IF c = Nil THEN s
  ELSE [s EXCEPT !.Cur.Byte = c.Byte, !.Cur.Next = c.Next,
                 !.Cur.Rune = c.Rune, !.Cur.Len = c.Len]

Jump(s, c) == IF c = Nil THEN s ELSE [s EXCEPT !.Cur = c]

\* a panic unwinds the whole call; "loop" is a call that never returns
Fault(s, why) == [s EXCEPT !.halt = why]

Ret(s, ok) == [s |-> s, ok |-> ok]

\* Scan counting the rune position once more at the end of the buffer
ScanCountsAtEnd(s) ==
  LET c == s.Cur
      s1 == [s EXCEPT !.Last = Mark(s)]
  IN
  IF c.Next = BufLen
  THEN Ret([s1 EXCEPT !.Cur.Rune = tkEOD, !.Cur.PosRune = c.PosRune + 1,
                      !.State = SetEOD(s.State)], FALSE)
  ELSE
    LET b == Buf[c.Next + 1]
        d == IF b > RuneSelf THEN DecodeRune(Buf, c.Next) ELSE [r |-> b, ln |-> 1]
        c2 == [c EXCEPT !.Byte = c.Next, !.LineByte = c.LineByte + c.Len,
                        !.Rune = d.r, !.PosRune = c.PosRune + 1,
                        !.Next = c.Next + d.ln, !.LineRune = c.LineRune + 1,
                        !.Len = d.ln]
    IN Ret([s1 EXCEPT !.Cur = c2], TRUE)

\* Scan setting Last only when it is about to advance
ScanSetsLastOnSuccess(s) ==
  LET c == s.Cur
  IN
  IF c.Next = BufLen
  THEN Ret([s EXCEPT !.Cur.Rune = tkEOD, !.State = SetEOD(s.State)], FALSE)
  ELSE
    LET b == Buf[c.Next + 1]
        d == IF b > RuneSelf THEN DecodeRune(Buf, c.Next) ELSE [r |-> b, ln |-> 1]
        c2 == [c EXCEPT !.Byte = c.Next, !.LineByte = c.LineByte + c.Len,
                        !.Rune = d.r, !.PosRune = c.PosRune + 1,
                        !.Next = c.Next + d.ln, !.LineRune = c.LineRune + 1,
                        !.Len = d.ln]
    IN Ret([s EXCEPT !.Last = Mark(s), !.Cur = c2], TRUE)

\* Scan leaving Cur.Byte where it was
ScanKeepsByte(s) ==
  LET c == s.Cur
      s1 == [s EXCEPT !.Last = Mark(s)]
  IN
  IF c.Next = BufLen
  THEN Ret([s1 EXCEPT !.Cur.Rune = tkEOD, !.State = SetEOD(s.State)], FALSE)
  ELSE
    LET b == Buf[c.Next + 1]
        d == IF b > RuneSelf THEN DecodeRune(Buf, c.Next) ELSE [r |-> b, ln |-> 1]
        c2 == [c EXCEPT !.LineByte = c.LineByte + c.Len,
                        !.Rune = d.r, !.PosRune = c.PosRune + 1,
                        !.Next = c.Next + d.ln, !.LineRune = c.LineRune + 1,
                        !.Len = d.ln]
    IN Ret([s1 EXCEPT !.Cur = c2], TRUE)

\* Scan adding the length of the rune it arrives at to the line byte
ScanAddsNewLen(s) ==
  LET c == s.Cur
      s1 == [s EXCEPT !.Last = Mark(s)]
  IN
  IF c.Next = BufLen
  THEN Ret([s1 EXCEPT !.Cur.Rune = tkEOD, !.State = SetEOD(s.State)], FALSE)
  ELSE
    LET b == Buf[c.Next + 1]
        d == IF b > RuneSelf THEN DecodeRune(Buf, c.Next) ELSE [r |-> b, ln |-> 1]
        c2 == [c EXCEPT !.Byte = c.Next, !.LineByte = c.LineByte + d.ln,
                        !.Rune = d.r, !.PosRune = c.PosRune + 1,
                        !.Next = c.Next + d.ln, !.LineRune = c.LineRune + 1,
                        !.Len = d.ln]
    IN Ret([s1 EXCEPT !.Cur = c2], TRUE)

Scan(s) ==
  LET c == s.Cur
      s1 == [s EXCEPT !.Last = Mark(s)]
  IN
  IF c.Next = BufLen
  THEN Ret([s1 EXCEPT !.Cur.Rune = tkEOD, !.State = SetEOD(s.State)], FALSE)
  ELSE
    LET b == Buf[c.Next + 1]
        d == IF b > RuneSelf THEN DecodeRune(Buf, c.Next) ELSE [r |-> b, ln |-> 1]
        r == IF d.ln # 0 THEN d.r ELSE tkEOD
        c1 == IF d.ln # 0
              THEN [c EXCEPT !.Byte = c.Next, !.LineByte = c.LineByte + c.Len]
              ELSE c
        c2 == [c1 EXCEPT !.Rune = r, !.PosRune = c.PosRune + 1,
                         !.Next = c.Next + d.ln, !.LineRune = c.LineRune + 1,
                         !.Len = d.ln]
    IN Ret([s1 EXCEPT !.Cur = c2,
                      !.State = IF d.ln # 0 THEN s.State ELSE SetEOD(s.State)],
           r # tkEOD)

RECURSIVE AnyToTheEnd(_, _)
\* Any going through all n rounds and returning true
AnyToTheEnd(s, n) ==
  IF n <= 0 THEN Ret(s, TRUE) ELSE AnyToTheEnd(Scan(s).s, n - 1)

RECURSIVE Any(_, _)
Any(s, n) ==
  IF n <= 0 THEN Ret(s, TRUE)
  ELSE LET r == Scan(s) IN
       IF ~r.ok THEN Ret(r.s, FALSE) ELSE Any(r.s, n - 1)

NewLine(c) == [c EXCEPT !.Line = c.Line + 1, !.LineRune = 1, !.LineByte = 1]

\* the message is kept as its template; its argument is the context t
Errorf(s, t, tpl) ==
  [s EXCEPT !.Err = Append(s.Err, [Msg |-> tpl, At |-> Mark(s), What |-> t])]

\* qstack.Pop / qstack.Peek: the zero value when the stack is empty
Pop(q) == IF q = <<>> THEN <<>> ELSE SubSeq(q, 1, Len(q) - 1)

PeekNode(q) == IF q = <<>> THEN NilNode ELSE q[Len(q)]

\* Snap: a copy of the cursor goes on the Snapped stack
Snap(s) == [s EXCEPT !.Snapped = Append(s.Snapped, s.Cur)]

\* Back taking the oldest cursor of the Snapped stack
BackOldest(s) ==
  LET last == IF s.Snapped = <<>> THEN Nil ELSE Head(s.Snapped)
  IN IF last # Nil THEN Jump([s EXCEPT !.Snapped = Tail(s.Snapped)], last)
     ELSE s

\* Back: the popped cursor is nil when the stack is empty
Back(s) ==
  LET last == IF s.Snapped = <<>> THEN Nil ELSE s.Snapped[Len(s.Snapped)]
  IN IF last # Nil THEN Jump([s EXCEPT !.Snapped = Pop(s.Snapped)], last)
     ELSE s

RECURSIVE PeekLoop(_, _, _, _)
\* the loop of Peek: buf is the string so far, pos the offset to decode at
PeekLoop(buf, pos, c, n) ==
  IF c >= n THEN buf
  ELSE LET d == DecodeRune(Buf, pos) IN
       IF d.ln = 0 THEN buf
       ELSE PeekLoop(buf \o EncodeRune(d.r), pos + d.ln, c + 1, n)

\* Peek reading on from the end of the current rune
PeekFromNext(s, n) == PeekLoop(<<>>, s.Cur.Next, 0, n)

\* Peek(n): the string of up to n runes decoded from Cur.Byte on
Peek(s, n) == PeekLoop(<<>>, s.Cur.Byte, 0, n)

\* the text of a cursor, U+XXXX 'r' L,LR-LB (BR-BB), as the values it
\* shows; <EOD> at end of data
CurString(c) ==
  IF c.Rune = tkEOD
  THEN [Rune |-> tkEOD, Line |-> 0, LineRune |-> 0, LineByte |-> 0,
        BufRune |-> 0, BufByte |-> 0]
  ELSE [Rune |-> c.Rune, Line |-> c.Line, LineRune |-> c.LineRune,
        LineByte |-> c.LineByte, BufRune |-> c.PosRune, BufByte |-> c.Byte + 1]

\* Error.String: "Msg at At"
ErrorString(e) == [Msg |-> e.Msg, At |-> CurString(e.At)]

\* String(): the last error, popped, when there is one, or else the cursor
String(s) ==
  IF Len(s.Err) > 0
  THEN [s |-> [s EXCEPT !.Err = Pop(s.Err)], out |-> ErrorString(s.Err[Len(s.Err)])]
  ELSE [s |-> s, out |-> [Msg |-> "", At |-> CurString(s.Cur)]]

(* ----------------------------- parse tree ----------------------------- *)

\* Tree.Node(t, v): a new node attached to nothing
NewNode(s, t, v) == [s EXCEPT !.Heap = Append(s.Heap, [T |-> t, V |-> v, N |-> <<>>])]

\* parent.Append(n)
AppendNode(s, parent, n) == [s EXCEPT !.Heap[parent].N = Append(s.Heap[parent].N, n)]

\* n.Cut(): n is taken out of the node above it
Cut(s, n) ==
  [s EXCEPT !.Heap = [i \in 1..Len(s.Heap) |->
       [s.Heap[i] EXCEPT !.N = SelectSeq(s.Heap[i].N, LAMBDA x : x # n)]]]

RECURSIVE CopyNode(_, _), CopyKids(_, _, _)
\* n.Copy(): a structural copy of the node and of everything under it,
\* made of new nodes
CopyNode(h, id) ==
  LET k == CopyKids(h, h[id].N, <<>>)
  IN [h |-> Append(k.h, [T |-> h[id].T, V |-> h[id].V, N |-> k.ids]),
      id |-> Len(k.h) + 1]

CopyKids(h, kids, acc) ==
  IF kids = <<>> THEN [h |-> h, ids |-> acc]
  ELSE LET c == CopyNode(h, Head(kids))
       IN CopyKids(c.h, Tail(kids), Append(acc, c.id))

RECURSIVE TreeOf(_, _)
\* the tree under a node as a value: what Root.Print() serialises
TreeOf(h, id) ==
  [T |-> h[id].T, V |-> h[id].V,
   N |-> [i \in 1..Len(h[id].N) |-> TreeOf(h, h[id].N[i])]]

\* PeekSlice(beg, end) = string(Buf[beg.Byte:end.Next]); the slice
\* expression panics on a nil cursor and on beg.Byte > end.Next
PeekSliceOk(beg, end) == beg # Nil /\ end # Nil /\ beg.Byte <= end.Next

PeekSlice(beg, end) == SubSeq(Buf, beg.Byte + 1, end.Next)

IsP(w) == "k" \in DOMAIN w /\ w.k = "P"

ClearLastError(s) ==
  IF s.Err = <<>> THEN Fault(s, "panic")
  ELSE LET err == s.Err[Len(s.Err)]
           s1 == [s EXCEPT !.Err = Pop(s.Err)]
       IN IF IsP(err.What)
          THEN IF s1.Nodes = <<>> THEN Fault(s1, "panic")
               ELSE Cut([s1 EXCEPT !.Nodes = Pop(s1.Nodes)], PeekNode(s1.Nodes))
          ELSE s1

(* ---------------------------- interpreter ----------------------------- *)

\* An expression is a record tagged by its Go type in k:
\*   rune [r], string [str: its bytes], X I O Y N [xs], A [n], T Ti [this],
\*   R [first, last], MM [min, max, this], M [min, this], M0 M1 [this],
\*   C [n, this], P [t, this], multi [xs] (X called with several arguments),
\*   and "int", a value of a type X does not know.

RECURSIVE X(_, _)
RECURSIVE XSeqLoop(_, _, _, _, _)
RECURSIVE XStringLoop(_, _, _, _)
RECURSIVE XNoLoop(_, _, _, _)
RECURSIVE XInLoop(_, _, _, _, _)
RECURSIVE XOptLoop(_, _, _, _)
RECURSIVE XToLoop(_, _, _)
RECURSIVE XTiLoop(_, _, _)
RECURSIVE Greedy(_, _, _)
RECURSIVE XCountLoop(_, _, _, _)

Halted(r) == r.s.halt # ""

\* case rune
XRune(s, e) ==
  IF s.Cur.Rune = e.r \/ e.r = tkANY THEN Ret(Scan(s).s, TRUE)
  ELSE IF e.r = tkNL THEN Ret([s EXCEPT !.Cur = NewLine(s.Cur)], TRUE)
  ELSE Ret(Errorf(s, e, "scan.x: expected %q"), FALSE)

\* case string: the loop over []rune(v), rs[i] is the next rune
XStringLoop(s, e, m, i) ==
  LET rs == Runes(e.str, 0) IN
  IF i > Len(rs) THEN Ret(s, TRUE)
  ELSE IF s.Cur.Rune # rs[i]
       THEN Ret(Errorf(Jump(s, m), e, "scan.x: expected %q"), FALSE)
       ELSE XStringLoop(Scan(s).s, e, m, i + 1)

XString(s, e) == XStringLoop(s, e, Mark(s), 1)

\* case z.X and X(expr...) with more than one argument: the loop body
XSeqLoop(s, xs, i, m, save) ==
  IF i > Len(xs) THEN Ret(s, TRUE)
  ELSE LET r == X(s, xs[i]) IN
       IF Halted(r) THEN r
       ELSE IF ~r.ok THEN Ret(Jump([r.s EXCEPT !.Root = save], m), FALSE)
       ELSE XSeqLoop(r.s, xs, i + 1, m, save)

XSeq(s, e) ==
  LET c == CopyNode(s.Heap, s.Root)
  IN XSeqLoop([s EXCEPT !.Heap = c.h], e.xs, 1, Mark(s), c.id)

\* case z.A
XAny(s, e) == Any(s, e.n)

\* case z.Y with the s.Jump(m) of the matching branch left out
XYesNoJump(s, e) ==
  LET m == Mark(s)
      r == X(s, [k |-> "X", xs |-> e.xs])
  IN IF Halted(r) THEN r
     ELSE IF r.ok THEN Ret(r.s, TRUE) ELSE Ret(Jump(r.s, m), FALSE)

\* case z.Y
XYes(s, e) ==
  LET m == Mark(s)
      r == X(s, [k |-> "X", xs |-> e.xs])
  IN IF Halted(r) THEN r ELSE Ret(Jump(r.s, m), r.ok)

\* case z.N: the loop body
XNoLoop(s, e, i, m) ==
  IF i > Len(e.xs) THEN Ret(Jump(s, m), TRUE)
  ELSE LET r == X(s, e.xs[i]) IN
       IF Halted(r) THEN r
       ELSE IF r.ok THEN Ret(Jump(Errorf(r.s, e, "scan.x: unexpected %v"), m), FALSE)
       ELSE LET s1 == ClearLastError(r.s) IN
            IF s1.halt # "" THEN Ret(s1, FALSE) ELSE XNoLoop(s1, e, i + 1, m)

XNo(s, e) == XNoLoop(s, e, 1, Mark(s))

\* case z.I: the loop body
XInLoop(s, e, i, m, save) ==
  IF i > Len(e.xs)
  THEN Ret(Errorf([s EXCEPT !.Root = save], e, "scan.x: expected %v"), FALSE)
  ELSE LET r == X(s, e.xs[i]) IN
       IF Halted(r) THEN r
       ELSE IF r.ok THEN Ret(r.s, TRUE)
       ELSE LET s1 == ClearLastError(r.s) IN
            IF s1.halt # "" THEN Ret(s1, FALSE)
            ELSE XInLoop(Jump(s1, m), e, i + 1, m, save)

\* case z.I ranging over the alternatives from the last to the first
XInLastFirst(s, e) ==
  LET c == CopyNode(s.Heap, s.Root)
      rev == [i \in 1..Len(e.xs) |-> e.xs[Len(e.xs) + 1 - i]]
  IN XInLoop([s EXCEPT !.Heap = c.h], [e EXCEPT !.xs = rev], 1, Mark(s), c.id)

XIn(s, e) ==
  LET c == CopyNode(s.Heap, s.Root)
  IN XInLoop([s EXCEPT !.Heap = c.h], e, 1, Mark(s), c.id)

\* case z.O: the loop body
XOptLoop(s, e, i, m) ==
  IF i > Len(e.xs) THEN Ret(s, TRUE)
  ELSE LET r == X(s, e.xs[i]) IN
       IF Halted(r) THEN r
       ELSE IF r.ok THEN Ret(r.s, TRUE)
       ELSE XOptLoop(Jump([r.s EXCEPT !.Err = Pop(r.s.Err)], m), e, i + 1, m)

XOpt(s, e) == XOptLoop(s, e, 1, Mark(s))

\* case z.T: one round of the for loop, m0 the mark taken before the loop
XToLoop(s, e, m0) ==
  LET m == Mark(s)
      r == X(s, e.this)
  IN IF Halted(r) THEN r
     ELSE IF r.ok THEN Ret(Jump(r.s, m), TRUE)
     ELSE LET s1 == ClearLastError(r.s) IN
          IF s1.halt # "" THEN Ret(s1, FALSE)
          ELSE LET sc == Scan(s1) IN
               IF sc.ok THEN XToLoop(sc.s, e, m0)
               ELSE Ret(Errorf(Jump(sc.s, m0), e, "scan.x: %v not found"), FALSE)

XTo(s, e) == XToLoop(s, e, Mark(s))

\* case z.Ti jumping back to where the match began, as z.T does
XTiStopsBefore(s, e) == XToLoop(s, e, Mark(s))

\* case z.Ti: one round of the for loop
XTiLoop(s, e, m0) ==
  LET r == X(s, e.this)
  IN IF Halted(r) THEN r
     ELSE IF r.ok THEN Ret(r.s, TRUE)
     ELSE LET s1 == ClearLastError(r.s) IN
          IF s1.halt # "" THEN Ret(s1, FALSE)
          ELSE LET sc == Scan(s1) IN
               IF sc.ok THEN XTiLoop(sc.s, e, m0)
               ELSE Ret(Errorf(Jump(sc.s, m0), e, "scan.x: %v not found"), FALSE)

XTi(s, e) == XTiLoop(s, e, Mark(s))

\* case z.R
XRange(s, e) ==
  LET m == Mark(s) IN
  IF e.first <= s.Cur.Rune /\ s.Cur.Rune <= e.last THEN Ret(Scan(s).s, TRUE)
  ELSE Ret(Errorf(Jump(s, m), e, "scan.x: expected %v"), FALSE)

\* what the interpreter reads of a cursor: the position counters are
\* written, never read
Place(c) == IF c = Nil THEN <<>> ELSE <<c.Byte, c.Next, c.Rune>>

\* A round of the loop of z.MM and z.M that matches and leaves what the next
\* round reads (the place of the cursor and of Last, the node stack, an
\* error stack at least as deep) as it found it: every later round does the
\* same, and the loop never ends.
Stuck(s, r) ==
  /\ r.ok
  /\ Place(r.s.Cur) = Place(s.Cur)
  /\ Place(r.s.Last) = Place(s.Last)
  /\ r.s.Nodes = s.Nodes
  /\ Len(r.s.Err) >= Len(s.Err)

\* for s.Cur.Rune != tk.EOD { if !s.X(v.This) { ClearLastError; break }; count++ }
\* ok of the result is unused; count is returned in n
Greedy(s, this, count) ==
  IF s.Cur.Rune = tkEOD THEN [s |-> s, n |-> count]
  ELSE LET r == X(s, this) IN
       IF Halted(r) THEN [s |-> r.s, n |-> count]
       ELSE IF ~r.ok THEN [s |-> ClearLastError(r.s), n |-> count]
       ELSE IF Stuck(s, r) THEN [s |-> Fault(r.s, "loop"), n |-> count]
       ELSE Greedy(r.s, this, count + 1)

\* case z.MM
XMinMax(s, e) ==
  LET m == Mark(s)
      g == Greedy(s, e.this, 0)
  IN IF g.s.halt # "" THEN Ret(g.s, FALSE)
     ELSE IF e.min <= g.n /\ g.n <= e.max THEN Ret(g.s, TRUE)
     ELSE Ret(Errorf(Jump(g.s, m), e, "scan.x: expected %v"), FALSE)

\* case z.M
XMin(s, e) ==
  LET m == Mark(s)
      c == CopyNode(s.Heap, s.Root)
      g == Greedy([s EXCEPT !.Heap = c.h], e.this, 0)
  IN IF g.s.halt # "" THEN Ret(g.s, FALSE)
     ELSE IF e.min <= g.n THEN Ret(g.s, TRUE)
     ELSE Ret(Errorf(Jump([g.s EXCEPT !.Root = c.id], m), e, "scan.x: expected %v"), FALSE)

\* case z.M0
XMin0(s, e) == X(s, [k |-> "M", min |-> 0, this |-> e.this])

\* case z.M1
XMin1(s, e) == X(s, [k |-> "M", min |-> 1, this |-> e.this])

RECURSIVE XCountLoopStaysPut(_, _, _, _)
\* the loop of z.C without the s.Jump(m) of the failing branch
XCountLoopStaysPut(s, e, i, m) ==
  IF i >= e.n THEN Ret(s, TRUE)
  ELSE LET r == X(s, e.this) IN
       IF Halted(r) THEN r
       ELSE IF ~r.ok THEN Ret(Errorf(r.s, e, "scan.x: expected %v"), FALSE)
       ELSE XCountLoopStaysPut(r.s, e, i + 1, m)

\* case z.C: the loop body
XCountLoop(s, e, i, m) ==
  IF i >= e.n THEN Ret(s, TRUE)
  ELSE LET r == X(s, e.this) IN
       IF Halted(r) THEN r
       ELSE IF ~r.ok THEN Ret(Errorf(Jump(r.s, m), e, "scan.x: expected %v"), FALSE)
       ELSE XCountLoop(r.s, e, i + 1, m)

XCount(s, e) == XCountLoop(s, e, 0, Mark(s))

\* case z.P with the value set on a node without children only
XParseLeafValue(s, e) ==
  LET cur == PeekNode(s.Nodes)
      s1 == NewNode(s, e.t, <<>>)
      n == Len(s1.Heap)
      m == Mark(s1)
      r == X([s1 EXCEPT !.Nodes = Append(s1.Nodes, n)], e.this)
      popped == [r.s EXCEPT !.Nodes = Pop(r.s.Nodes)]
      v == IF r.s.Heap[n].N = <<>> THEN PeekSlice(m, r.s.Last) ELSE <<>>
  IN IF Halted(r) THEN Ret(popped, FALSE)
     ELSE IF ~r.ok THEN Ret(Jump(popped, m), FALSE)
     ELSE IF ~PeekSliceOk(m, r.s.Last) \/ cur = NilNode
          THEN Ret(Fault(popped, "panic"), FALSE)
     ELSE Ret(AppendNode([popped EXCEPT !.Heap[n].V = v], cur, n), TRUE)

\* case z.P; the deferred Nodes.Pop() runs on every way out
XParse(s, e) ==
  LET cur == PeekNode(s.Nodes)
      s1 == NewNode(s, e.t, <<>>)
      n == Len(s1.Heap)
      m == Mark(s1)
      r == X([s1 EXCEPT !.Nodes = Append(s1.Nodes, n)], e.this)
      popped == [r.s EXCEPT !.Nodes = Pop(r.s.Nodes)]
  IN IF Halted(r) THEN Ret(popped, FALSE)
     ELSE IF ~r.ok THEN Ret(Jump(popped, m), FALSE)
     ELSE IF ~PeekSliceOk(m, r.s.Last) \/ cur = NilNode
          THEN Ret(Fault(popped, "panic"), FALSE)
     ELSE Ret(AppendNode([popped EXCEPT !.Heap[n].V = PeekSlice(m, r.s.Last)], cur, n),
              TRUE)

\* default
XUnsupported(s, e) == Ret(Errorf(s, e, "scan.x: unsupported %T"), FALSE)

X(s, e) ==
  IF s.halt # "" THEN Ret(s, FALSE)
  ELSE CASE e.k = "multi" -> XSeq(s, e)
         [] e.k = "rune" -> XRune(s, e)
         [] e.k = "string" -> XString(s, e)
         [] e.k = "X" -> XSeq(s, e)
         [] e.k = "A" -> XAny(s, e)
         [] e.k = "Y" -> XYes(s, e)
         [] e.k = "N" -> XNo(s, e)
         [] e.k = "I" -> XIn(s, e)
         [] e.k = "O" -> XOpt(s, e)
         [] e.k = "T" -> XTo(s, e)
         [] e.k = "Ti" -> XTi(s, e)
         [] e.k = "R" -> XRange(s, e)
         [] e.k = "MM" -> XMinMax(s, e)
         [] e.k = "M" -> XMin(s, e)
         [] e.k = "M0" -> XMin0(s, e)
         [] e.k = "M1" -> XMin1(s, e)
         [] e.k = "C" -> XCount(s, e)
         [] e.k = "P" -> XParse(s, e)
         [] OTHER -> XUnsupported(s, e)

(* ------------------------ inputs of a program run --------------------- *)

Rn(r) == [k |-> "rune", r |-> r]

Str(b) == [k |-> "string", str |-> b]

Ls(k, xs) == [k |-> k, xs |-> xs]

Th(k, x) == [k |-> k, this |-> x]

Px(t, x) == [k |-> "P", t |-> t, this |-> x]

\* every expression type around one operand, counts taken from 0..Reps
Unary(x) ==
  {Ls(k, <<x>>) : k \in {"X", "I", "O", "Y", "N"}}
  \cup {Th(k, x) : k \in {"T", "Ti", "M0", "M1"}}
  \cup {[k |-> "M", min |-> Reps, this |-> x],
        [k |-> "MM", min |-> 1, max |-> Reps, this |-> x],
        [k |-> "C", n |-> Reps, this |-> x],
        Px(2, x)}

\* every list expression over two operands, and X called with both
Binary(x, y) == {Ls(k, <<x, y>>) : k \in {"X", "I", "O", "Y", "N", "multi"}}

\* 'a', U+00E9, tk.ANY, "aa", "a" followed by U+00E9, z.R{'a','z'}, a value
\* of a type X does not know, z.A{n}
Atoms ==
  {Rn(97), Rn(233), Rn(tkANY), Str(<<97, 97>>), Str(<<97, 195, 169>>),
   [k |-> "R", first |-> 97, last |-> 122], [k |-> "int"]}
  \cup {[k |-> "A", n |-> n] : n \in 0..Reps}

\* operands that match without advancing, leave a node, or fail untidily
Operands ==
  {Rn(97), Rn(233), Str(<<97, 97>>), [k |-> "A", n |-> Reps], Px(3, Rn(97))}

Inner ==
  {Px(3, Rn(97)), Ls("O", <<Rn(233)>>), Ls("O", <<Str(<<97, 195, 169>>)>>),
   Ls("Y", <<Rn(97)>>), [k |-> "C", n |-> Reps, this |-> Px(3, Rn(97))],
   Ls("X", <<Px(3, Rn(97)), Rn(233)>>), Ls("I", <<[k |-> "A", n |-> Reps]>>)}

\* a node around two nodes, around a node left by a sequence that failed
\* and around a match of no rune
Nested ==
  {Px(2, Ls("X", <<Px(3, Rn(97)), Px(4, Rn(97))>>)),
   Px(2, Ls("X", <<Px(3, Rn(97)), Px(4, Rn(233))>>)),
   Px(2, Ls("X", <<Ls("O", <<Ls("X", <<Px(3, Rn(97)), Rn(233)>>)>>), Px(4, Rn(97))>>)),
   Px(2, Px(3, Ls("O", <<Rn(233)>>)))}

\* z.C{0, x}: a count of none
NoCount == {[k |-> "C", n |-> 0, this |-> x] : x \in {Rn(97), Rn(233), Px(3, Rn(97))}}

Exprs ==
  Atoms
  \cup NoCount
  \cup UNION {Unary(x) : x \in Atoms \cup Inner}
  \cup UNION {Binary(x, y) : x \in Operands, y \in Operands}
  \cup UNION {Binary(x, y) : x \in Inner, y \in {Rn(97), Px(4, Rn(97))}}
  \cup Nested

RECURSIVE SeqsUpTo(_, _)
SeqsUpTo(S, n) ==
  IF n = 0 THEN {<<>>}
  ELSE LET shorter == SeqsUpTo(S, n - 1)
       IN shorter \cup {Append(q, x) : q \in shorter, x \in S}

\* the inputs New accepts without an error: the non-empty buffers
Bufs == SeqsUpTo(Bytes, MaxLen) \ {<<>>}

(* --------------------------- construction ----------------------------- *)

\* what New is given: a string, a []byte (also with the byte 0x80, which is
\* no rune by itself), an io.Reader that yields its bytes or fails before the
\* first one, and a []rune
Inputs ==
  {[t |-> "string", b |-> b] : b \in SeqsUpTo(Bytes, MaxLen)}
  \cup {[t |-> ty, b |-> b] : ty \in {"bytes", "reader"}, b \in {<<>>, <<97>>}}
  \cup {[t |-> "bytes", b |-> b] :
          b \in {<<RuneSelf>>, <<97, RuneSelf>>, <<97, RuneSelf, 97>>}}
  \cup {[t |-> "reader", b |-> <<>>, err |-> "read failed"], [t |-> "runes"]}

\* Error(err)
Error(s, err) ==
  [s EXCEPT !.Err = Append(s.Err, [Msg |-> err, At |-> Mark(s), What |-> Nil])]

\* s.buffer(i): the buffer and the scanner it leaves
buffer(s, i) ==
  IF i.t = "reader" /\ "err" \in DOMAIN i
  THEN [Buf |-> <<>>, s |-> Error(s, i.err)]
  ELSE IF i.t \in {"reader", "string", "bytes"}
  THEN [Buf |-> i.b,
        s |-> IF Len(i.b) = 0 THEN Errorf(s, Nil, "buffer: no input") ELSE s]
  ELSE [Buf |-> <<>>, s |-> Errorf(s, i, "buffer: unsupported type: %T")]

\* new(R) after the assignments Init makes before it calls buffer
Fresh ==
  [Cur |-> [Byte |-> 0, Next |-> 0, Rune |-> 0, Len |-> 0,
            Line |-> 1, LineRune |-> 1, LineByte |-> 1, PosRune |-> 1],
   Last |-> Nil, Snapped |-> <<>>, State |-> 0, Err |-> <<>>,
   Heap |-> <<[T |-> 1, V |-> <<>>, N |-> <<>>]>>, Root |-> 1, Nodes |-> <<1>>,
   halt |-> ""]

\* New going on to the first rune whatever buffer has pushed
NewScansOn(i) ==
  LET b == buffer(Fresh, i)
      d == DecodeRune(b.Buf, 0)
  IN IF d.ln = 0
     THEN [Buf |-> b.Buf,
           s |-> Errorf([b.s EXCEPT !.State = SetEOD(b.s.State)], Nil,
                        "init: failed to scan first rune")]
     ELSE [Buf |-> b.Buf,
           s |-> [b.s EXCEPT !.Cur.Rune = d.r, !.Cur.Len = d.ln, !.Cur.Next = d.ln]]

\* New(i): Init(i) on a new R
New(i) ==
  LET b == buffer(Fresh, i)
      d == DecodeRune(b.Buf, 0)
  IN IF Len(b.s.Err) > 0 THEN b
     ELSE IF d.ln = 0
     THEN [Buf |-> b.Buf,
           s |-> Errorf([b.s EXCEPT !.State = SetEOD(b.s.State)], Nil,
                        "init: failed to scan first rune")]
     ELSE [Buf |-> b.Buf,
           s |-> [b.s EXCEPT !.Cur.Rune = d.r, !.Cur.Len = d.ln, !.Cur.Next = d.ln]]

\* New(i) / Init(i) for a string or []byte input
InitCur(buf) ==
  LET c0 == [Byte |-> 0, Next |-> 0, Rune |-> 0, Len |-> 0,
             Line |-> 1, LineRune |-> 1, LineByte |-> 1, PosRune |-> 1]
      d == DecodeRune(buf, 0)
  IN IF buf = <<>> THEN c0
     ELSE [c0 EXCEPT !.Rune = d.r, !.Len = d.ln, !.Next = d.ln]

\* the scanner New returns and a caller that holds no cursor yet
Constructed ==
  /\ Buf \in Bufs
  /\ Cur = InitCur(Buf)
  /\ Last = Nil
  /\ Snapped = <<>>
  /\ State = 0
  /\ Err = <<>>
  /\ Heap = <<[T |-> 1, V |-> <<>>, N |-> <<>>]>>
  /\ Root = 1
  /\ Nodes = <<1>>
  /\ halt = ""
  /\ call = [op |-> "New", arg |-> 0, ok |-> TRUE, pre |-> Nil]
  /\ marks = <<>>
  /\ snaps = <<>>

Init ==
  /\ Constructed
  /\ gram \in Exprs
  /\ nops = MaxOps

\* the expressions of the caller that drives the cursor by hand
CursorExprs == {Rn(tkANY), Str(<<97, 97>>)}

InitCursor ==
  /\ Constructed
  /\ gram \in CursorExprs
  /\ nops = MaxCalls

\* the expressions of the caller that reads what New returned
InputExprs == {Rn(tkANY), Px(2, Rn(97))}

\* the scanner New returns for any input
InitInput ==
  /\ \E i \in Inputs :
       LET n == New(i) IN
       /\ Buf = n.Buf
       /\ Cur = n.s.Cur
       /\ Last = n.s.Last
       /\ Snapped = n.s.Snapped
       /\ State = n.s.State
       /\ Err = n.s.Err
       /\ Heap = n.s.Heap
       /\ Root = n.s.Root
       /\ Nodes = n.s.Nodes
       /\ halt = n.s.halt
       /\ call = [op |-> "New", arg |-> i, ok |-> TRUE, pre |-> Nil]
  /\ gram \in InputExprs
  /\ nops = MaxCalls
  /\ marks = <<>>
  /\ snaps = <<>>

(* ------------------------------ actions ------------------------------- *)

\* the scanner after a call that produced r; call records the call and
\* nops counts the calls the caller has left
Install(op, arg, r) ==
  /\ Cur' = r.s.Cur
  /\ Last' = r.s.Last
  /\ Snapped' = r.s.Snapped
  /\ State' = r.s.State
  /\ Err' = r.s.Err
  /\ Heap' = r.s.Heap
  /\ Root' = r.s.Root
  /\ Nodes' = r.s.Nodes
  /\ halt' = r.s.halt
  /\ call' = [op |-> op, arg |-> arg, ok |-> r.ok, pre |-> Self]
  /\ nops' = nops - 1
  /\ UNCHANGED <<Buf, gram>>

\* the caller's cursors after the cell of s.Cur was written in place: the
\* ones that are that cell show what was written
Written(ms, c) ==
  [i \in 1..Len(ms) |-> IF ms[i].shared THEN [ms[i] EXCEPT !.c = c] ELSE ms[i]]

\* the caller's cursors after s.Cur was pointed at a new cell
Unshared(ms) == [i \in 1..Len(ms) |-> [ms[i] EXCEPT !.shared = FALSE]]

\* the caller calls s.Scan()
DoScan ==
  /\ halt = ""
  /\ nops > 0
  /\ Install("Scan", 0, Scan(Self))
  /\ marks' = Written(marks, Cur')
  /\ UNCHANGED snaps

\* the caller calls s.X(gram)
DoX ==
  /\ halt = ""
  /\ nops > 0
  /\ Install("X", 0, X(Self, gram))
  /\ marks' = Written(marks, Cur')
  /\ UNCHANGED snaps

\* the caller calls s.Any(n)
DoAny ==
  /\ halt = ""
  /\ nops > 0
  /\ \E n \in 0..Reps : Install("Any", n, Any(Self, n))
  /\ marks' = Written(marks, Cur')
  /\ UNCHANGED snaps

\* m := s.Mark() with the returned pointer at the cell of s.Cur itself
DoMarkAlias ==
  /\ halt = ""
  /\ nops > 0
  /\ Len(marks) < MaxMarks
  /\ Install("Mark", 0, Ret(Self, Mark(Self) # Nil))
  /\ marks' = Append(marks, [c |-> Mark(Self), was |-> Mark(Self), shared |-> TRUE])
  /\ UNCHANGED snaps

\* the caller keeps m := s.Mark(): cp := *s.Cur; return &cp is a new cell.
\* was is the value the caller saw when Mark returned.
DoMark ==
  /\ halt = ""
  /\ nops > 0
  /\ Len(marks) < MaxMarks
  /\ Install("Mark", 0, Ret(Self, Mark(Self) # Nil))
  /\ marks' = Append(marks, [c |-> Mark(Self), was |-> Mark(Self), shared |-> FALSE])
  /\ UNCHANGED snaps

\* the caller calls s.Jump(m) with one of its cursors, or s.Jump(nil) (i = 0);
\* nc := *c; s.Cur = &nc is a new cell
DoJump ==
  /\ halt = ""
  /\ nops > 0
  /\ \E i \in 0..Len(marks) :
       /\ Install("Jump", i, Ret(Jump(Self, IF i = 0 THEN Nil ELSE marks[i].c), TRUE))
       /\ marks' = IF i = 0 THEN marks ELSE Unshared(marks)
  /\ UNCHANGED snaps

\* the caller calls s.Snap(); snaps is the caller's own record of the
\* cursors it has snapped and not yet gone back to
DoSnap ==
  /\ halt = ""
  /\ nops > 0
  /\ Len(Snapped) < MaxSnaps
  /\ Install("Snap", 0, Ret(Snap(Self), TRUE))
  /\ snaps' = Append(snaps, Cur)
  /\ UNCHANGED marks

\* the caller calls s.Back()
DoBack ==
  /\ halt = ""
  /\ nops > 0
  /\ Install("Back", 0, Ret(Back(Self), TRUE))
  /\ snaps' = Pop(snaps)
  /\ marks' = IF Snapped = <<>> THEN marks ELSE Unshared(marks)

\* the caller calls s.Peek(n); out is the string returned, and slicing
\* s.Buf[pos:] past its end is a run-time panic
DoPeek ==
  /\ halt = ""
  /\ nops > 0
  /\ \E n \in 0..MaxLen :
       call' = [op |-> "Peek", arg |-> n, ok |-> TRUE, pre |-> Self,
                out |-> IF Cur.Byte > BufLen THEN <<>> ELSE Peek(Self, n)]
  /\ halt' = IF Cur.Byte > BufLen THEN "panic" ELSE halt
  /\ nops' = nops - 1
  /\ UNCHANGED <<Buf, gram, Cur, Last, Snapped, State, Err, Heap, Root, Nodes,
                 marks, snaps>>

\* the caller calls s.String(), or s.Print() or s.Log(), which print what
\* String returns; out is the text
DoString ==
  /\ halt = ""
  /\ nops > 0
  /\ call' = [op |-> "String", arg |-> 0, ok |-> TRUE, pre |-> Self,
              out |-> String(Self).out]
  /\ Err' = String(Self).s.Err
  /\ nops' = nops - 1
  /\ UNCHANGED <<Buf, gram, Cur, Last, Snapped, State, Heap, Root, Nodes,
                 halt, marks, snaps>>

Next == DoScan \/ DoX

Spec == Init /\ [][Next]_vars

NextCursor == DoScan \/ DoX \/ DoAny \/ DoMark \/ DoJump \/ DoSnap \/ DoBack

SpecCursor == InitCursor /\ [][NextCursor]_vars

NextInput == DoScan \/ DoX \/ DoPeek \/ DoString

SpecInput == InitInput /\ [][NextInput]_vars

(* ------------------------------ claims -------------------------------- *)

\* the last call was X and it returned (it neither panicked nor hung)
Returned == call.op = "X" /\ halt = ""

Failed == Returned /\ ~call.ok

Succeeded == Returned /\ call.ok

TreeNow == TreeOf(Heap, Root)

TreeBefore == TreeOf(call.pre.Heap, call.pre.Root)

\* C1: when X(e) returns false the cursor, position counters included, is
\* the cursor before the call.
C1_CursorRestoredOnFailure == Failed => Cur = call.pre.Cur

\* C2: when X(e) returns false the tree under the scanner's tree root is
\* structurally the tree before the call.
C2_TreeRestoredOnFailure == Failed => TreeNow = TreeBefore

\* C3: when X(e) returns false the error stack is the stack before the call
\* with exactly one entry pushed on it.
C3_OneErrorPerFailure ==
  Failed => /\ Len(Err) = Len(call.pre.Err) + 1
            /\ SubSeq(Err, 1, Len(call.pre.Err)) = call.pre.Err

\* C4: when X(e) returns true for an In, Opt, Neg, Min, MinMax, Count, To or
\* Ti expression the error stack is the error stack on entry.
C4_ErrorHygieneOnSuccess ==
  (Succeeded /\ gram.k \in {"I", "O", "N", "M", "M0", "M1", "MM", "C", "T", "Ti"})
    => Err = call.pre.Err

\* C5: after X(Pos[...]) or X(Neg[...]) returns, true or false, the cursor,
\* position counters included, is the cursor at entry.
C5_LookaheadNeverAdvances ==
  (Returned /\ gram.k \in {"Y", "N"}) => Cur = call.pre.Cur

\* a lookahead returned whose inner expressions, evaluated as a sequence
\* from the entry state, match and move the cursor
C5_Witness ==
  /\ Returned
  /\ gram.k \in {"Y", "N"}
  /\ LET r == X(call.pre, Ls("X", gram.xs))
     IN r.ok /\ r.s.Cur.Byte # call.pre.Cur.Byte

\* C6: evaluating Pos(e) or Neg(e) leaves the parse tree structurally as it
\* was before the call, whether the lookahead succeeds or fails.
C6_LookaheadLeavesTree ==
  (Returned /\ gram.k \in {"Y", "N"}) => TreeNow = TreeBefore

\* alternative i of the In expression of the last call matches when it is
\* evaluated on its own from the state the call was entered in
Matches(i) ==
  LET r == X(call.pre, gram.xs[i]) IN r.s.halt = "" /\ r.ok

\* the first alternative that matches at the entry cursor, 0 when none does
Winner ==
  IF \E i \in 1..Len(gram.xs) : Matches(i)
  THEN CHOOSE i \in 1..Len(gram.xs) : Matches(i) /\ \A j \in 1..(i - 1) : ~Matches(j)
  ELSE 0

\* C7: if a and b both match at the cursor, X(In[a,b]) returns true and
\* leaves the cursor and the tree that X(Seq[a]) leaves from the same
\* state, and b leaves no trace in Last, State or Err; in general the first
\* alternative, from the left, that matches at the entry cursor decides
\* whether In matches and where the cursor ends.
C7_OrderedChoice ==
  (Returned /\ gram.k = "I") =>
    /\ (Len(gram.xs) = 2 /\ Matches(1) /\ Matches(2)) =>
         LET a == X(call.pre, Ls("X", <<gram.xs[1]>>))
         IN /\ call.ok
            /\ Cur = a.s.Cur
            /\ TreeNow = TreeOf(a.s.Heap, a.s.Root)
            /\ Last = a.s.Last
            /\ State = a.s.State
            /\ Err = a.s.Err
    /\ call.ok = (Winner # 0)
    /\ call.ok => Cur = X(call.pre, gram.xs[Winner]).s.Cur

\* In[a,b] returned where a and b both match and advance differently
C7_Witness ==
  /\ Returned
  /\ gram.k = "I"
  /\ Len(gram.xs) = 2
  /\ Matches(1)
  /\ Matches(2)
  /\ X(call.pre, gram.xs[1]).s.Cur # X(call.pre, gram.xs[2]).s.Cur

\* C8: when In succeeds after alternatives failed, the tree is the entry
\* tree plus the nodes of the winning alternative only, that is the tree
\* the winning alternative leaves when evaluated alone from the entry state.
C8_InRestoresBetweenAlternatives ==
  (Succeeded /\ gram.k = "I" /\ Winner # 0) =>
    LET w == X(call.pre, gram.xs[Winner])
    IN TreeNow = TreeOf(w.s.Heap, w.s.Root)

RECURSIVE Greedies(_)
\* the number of z.M, z.MM, z.M0, z.M1 loops in an expression
Greedies(e) ==
  (IF e.k \in {"M", "MM", "M0", "M1"} THEN 1 ELSE 0)
  + (IF "this" \in DOMAIN e THEN Greedies(e.this) ELSE 0)
  + (IF "xs" \in DOMAIN e /\ Len(e.xs) > 0 THEN Greedies(e.xs[1]) ELSE 0)
  + (IF "xs" \in DOMAIN e /\ Len(e.xs) > 1 THEN Greedies(e.xs[2]) ELSE 0)

\* C9: X(Min), X(MinMax), X(Count), X(To) and X(Ti) over an inner
\* expression that terminates (here: one without a loop of its own) end.
C9_GreedyTerminates ==
  (call.op = "X" /\ gram.k \in {"M", "M0", "M1", "MM", "C", "T", "Ti"}
     /\ Greedies(gram.this) = 0)
    => halt # "loop"

\* the byte offset a cursor stands at: past the last rune at end of data
Off(c) == IF c.Rune = tkEOD THEN BufLen ELSE c.Byte

\* C10: after X(Parse(tag,x)) returns true the value of the new node, the
\* last child of the node that was on top of the node stack, is the buffer
\* text from the entry cursor up to the exit cursor.
C10_ParseValueIsConsumedText ==
  (Succeeded /\ gram.k = "P") =>
    LET kids == Heap[PeekNode(call.pre.Nodes)].N
    IN Heap[kids[Len(kids)]].V = SubSeq(Buf, Off(call.pre.Cur) + 1, Off(Cur))

\* the node a successful X(Parse) has made: the last child of the node that
\* was on top of the node stack when the call began
NewParseNode ==
  LET kids == Heap[PeekNode(call.pre.Nodes)].N IN kids[Len(kids)]

\* the type tags of the nodes in a sequence of node pointers
Tags(ids) == [i \in 1..Len(ids) |-> Heap[ids[i]].T]

AllParse(xs) == \A i \in 1..Len(xs) : xs[i].k = "P"

\* C11: a successful Parse(tag,x) appends exactly one new node, tagged tag,
\* as the last child of the node on top of the node stack at entry; when x
\* is a sequence of Parse expressions their nodes are the children of the
\* new node, in order; two consecutive top-level Parse expressions add two
\* sibling children to the root the caller reads, in order.
C11_ParseTreeStructure ==
  /\ (Succeeded /\ gram.k = "P") =>
       LET par == PeekNode(call.pre.Nodes)
       IN /\ Len(Heap[par].N) = Len(call.pre.Heap[par].N) + 1
          /\ SubSeq(Heap[par].N, 1, Len(Heap[par].N) - 1) = call.pre.Heap[par].N
          /\ NewParseNode > Len(call.pre.Heap)
          /\ Heap[NewParseNode].T = gram.t
  /\ (Succeeded /\ gram.k = "P" /\ gram.this.k = "X" /\ AllParse(gram.this.xs)) =>
       Tags(Heap[NewParseNode].N) = [i \in 1..Len(gram.this.xs) |-> gram.this.xs[i].t]
  /\ (Succeeded /\ gram.k \in {"X", "multi"} /\ Len(gram.xs) = 2 /\ AllParse(gram.xs)) =>
       /\ Len(Heap[Root].N) = Len(call.pre.Heap[call.pre.Root].N) + Len(gram.xs)
       /\ SubSeq(TreeNow.N, 1, Len(TreeBefore.N)) = TreeBefore.N
       /\ \A i \in 1..Len(gram.xs) :
            TreeNow.N[Len(TreeBefore.N) + i].T = gram.xs[i].t

HasEOD(st) == (st \div EOD) % 2 = 1

\* C13: a Scan that follows a Scan that returned false at the end of the
\* buffer returns false, leaves every field of the current cursor as it was
\* (the rune is the EOD sentinel) and leaves the EOD state bit set.
C13_IdempotentEOD ==
  [][(call.op = "Scan" /\ ~call.ok /\ call'.op = "Scan" /\ nops' # nops)
       => /\ ~call'.ok
          /\ Cur' = Cur
          /\ Cur'.Rune = tkEOD
          /\ HasEOD(State)
          /\ HasEOD(State')]_vars

\* a Scan was issued on a scanner that a failed Scan had left at the end
C13_Witness ==
  /\ call.op = "Scan"
  /\ ~call.ok
  /\ call.pre.Cur.Rune = tkEOD
  /\ call.pre.Last # Nil
  /\ call.pre.Last.Next = BufLen
  /\ HasEOD(call.pre.State)

RECURSIVE CursorAt(_, _)
\* the cursor of a scanner that went from c to byte offset p by Scan alone
CursorAt(c, p) ==
  IF c.Byte = p \/ c.Next = BufLen THEN c
  ELSE CursorAt(Scan([Self EXCEPT !.Cur = c]).s.Cur, p)

\* C14: whatever Scan and Jump calls brought the scanner to the rune at
\* byte offset p, its cursor and every cursor Mark returned there have the
\* same value in every field: the one the scanner has when it goes from its
\* construction to p by Scan alone.
C14_RoundTripPosition ==
  /\ Cur.Rune # tkEOD => Cur = CursorAt(InitCur(Buf), Cur.Byte)
  /\ \A i \in 1..Len(marks) :
       marks[i].c.Rune # tkEOD => marks[i].c = CursorAt(InitCur(Buf), marks[i].c.Byte)

\* the scanner went on from a cursor, jumped back to it and went on again
C14_Witness ==
  /\ call.op = "Scan"
  /\ call.ok
  /\ Cur.Byte > 0
  /\ Len(marks) > 0
  /\ call.pre.Cur = marks[1].c
  /\ call.pre.Last = marks[1].c

\* C15: a cursor Mark returned keeps the value it had when Mark returned,
\* whatever Scan, Any, Jump, Snap, Back or X calls follow, also after the
\* scanner jumped to it; Jump(m) makes every field of the current cursor
\* equal to the value at the Mark; Jump(nil) changes nothing.
C15_MarkJumpAreCopies ==
  /\ \A i \in 1..Len(marks) : marks[i].c = marks[i].was /\ ~marks[i].shared
  /\ (call.op = "Jump" /\ call.arg # 0) =>
       /\ Cur = marks[call.arg].was
       /\ [Self EXCEPT !.Cur = call.pre.Cur] = call.pre
  /\ (call.op = "Jump" /\ call.arg = 0) => Self = call.pre

\* the scanner has moved on from a cursor it marked and jumped back to it
C15_Witness ==
  /\ call.op = "Jump"
  /\ call.arg # 0
  /\ call.pre.Cur.Byte # marks[call.arg].was.Byte
  /\ call.pre.Cur.PosRune # marks[call.arg].was.PosRune

\* C16: Back puts the current cursor back to the cursor of the most recent
\* Snap that no Back has undone yet and takes that savepoint off the stack;
\* with no Snap outstanding it leaves the cursor and the stack as they are;
\* Snap adds one savepoint and leaves the cursor alone.
C16_SnapBackLIFO ==
  [][/\ (call'.op = "Back" /\ nops' # nops) =>
          IF snaps = <<>>
          THEN Cur' = Cur /\ Snapped = <<>> /\ Snapped' = <<>>
          ELSE /\ Cur' = snaps[Len(snaps)]
               /\ Len(Snapped') = Len(Snapped) - 1
               /\ Len(Snapped') = Len(snaps')
     /\ (call'.op = "Snap" /\ nops' # nops) =>
          Cur' = Cur /\ Len(Snapped') = Len(Snapped) + 1]_vars

\* Back was called with two different savepoints outstanding
C16_Witness ==
  /\ call.op = "Back"
  /\ Len(call.pre.Snapped) = 2
  /\ call.pre.Snapped[1] # call.pre.Snapped[2]
  /\ Cur = call.pre.Snapped[2]

RECURSIVE Skip(_, _)
\* the byte offset n runes after the rune at byte offset off
Skip(off, n) == IF n = 0 THEN off ELSE Skip(off + DecodeRune(Buf, off).ln, n - 1)

\* C17: from a cursor not at the end of data with k runes after the current
\* rune, Any(n) returns true iff n <= k and then the cursor is n runes
\* ahead; if n > k it returns false after k runes with the scanner at the
\* end of data and the EOD bit set; Any(0) returns true and changes no
\* cursor field.
C17_AnyMethod ==
  (call.op = "Any" /\ call.pre.Cur.Rune # tkEOD) =>
    LET n == call.arg
        k == Len(Runes(Buf, call.pre.Cur.Next))
    IN /\ call.ok = (n <= k)
       /\ call.ok =>
            /\ Cur.Rune # tkEOD
            /\ Cur.Byte = Skip(call.pre.Cur.Byte, n)
            /\ Cur.PosRune = call.pre.Cur.PosRune + n
            /\ Cur = CursorAt(call.pre.Cur, Cur.Byte)
       /\ ~call.ok =>
            /\ Cur.Rune = tkEOD
            /\ Cur.Next = BufLen
            /\ Cur.PosRune = call.pre.Cur.PosRune + k
            /\ HasEOD(State)
       /\ n = 0 => Cur = call.pre.Cur

\* Any(n) went n >= 2 runes ahead
C17_Witness ==
  /\ call.op = "Any"
  /\ call.ok
  /\ call.arg >= 2
  /\ call.pre.Cur.Rune # tkEOD
  /\ Cur.Byte > call.pre.Cur.Next

\* C18: X(AnyN(n)) returns true for every n >= 0 in every scanner state,
\* also when the end of data comes before n runes were scanned.
C18_AnyNAlwaysSucceeds ==
  (Returned /\ gram.k = "A") => call.ok

RECURSIVE Places(_)
\* the cursors of the rune positions from c to the end of data, c first
Places(c) ==
  IF c.Rune = tkEOD THEN <<>>
  ELSE LET r == Scan([Self EXCEPT !.Cur = c])
       IN <<c>> \o (IF r.ok THEN Places(r.s.Cur) ELSE <<>>)

\* the inner expression of the To or Ti of the last call matches when it is
\* evaluated at cursor c from the state the call was entered in
MatchesAt(c) ==
  LET r == X([call.pre EXCEPT !.Cur = c], gram.this) IN r.s.halt = "" /\ r.ok

\* the first rune position at or after the entry cursor where the inner
\* expression matches, 0 when there is none before the end of data
FirstMatch ==
  LET ps == Places(call.pre.Cur)
  IN IF \E i \in 1..Len(ps) : MatchesAt(ps[i])
     THEN CHOOSE i \in 1..Len(ps) : MatchesAt(ps[i]) /\ \A j \in 1..(i - 1) : ~MatchesAt(ps[j])
     ELSE 0

\* C19: X(To(x)) returns true iff x matches at some rune position at or
\* after the entry cursor and before the end of data; then the cursor is at
\* the first such position, nothing of x consumed; otherwise it returns
\* false with the cursor of entry and one "not found" error pushed.
C19_ToStopsAtMatch ==
  (Returned /\ gram.k = "T") =>
    /\ call.ok = (FirstMatch # 0)
    /\ call.ok => Cur = Places(call.pre.Cur)[FirstMatch]
    /\ ~call.ok =>
         /\ Cur = call.pre.Cur
         /\ Err = Append(call.pre.Err,
                         [Msg |-> "scan.x: %v not found", At |-> call.pre.Cur, What |-> gram])

\* X(To(x)) from the state the last call was entered in
ToFromEntry == X(call.pre, Th("T", gram.this))

RECURSIVE Matched(_, _, _)
\* x evaluated again and again from s until it fails or the end of data is
\* reached: n counts the matches, s is the scanner after the last of them;
\* n is -1 when there is no such count: x matched without moving the
\* cursor, and so matches without end, or the evaluation of x faulted
Matched(s, x, n) ==
  IF s.Cur.Rune = tkEOD THEN [s |-> s, n |-> n]
  ELSE LET r == X(s, x) IN
       IF r.s.halt # "" THEN [s |-> r.s, n |-> -1]
       ELSE IF ~r.ok THEN [s |-> s, n |-> n]
       ELSE IF Place(r.s.Cur) = Place(s.Cur) THEN [s |-> r.s, n |-> -1]
       ELSE Matched(r.s, x, n + 1)

\* the least number of matches the Min or MinMax of the last call asks for
Least == CASE gram.k \in {"M", "MM"} -> gram.min
           [] gram.k = "M1" -> 1
           [] gram.k = "M0" -> 0

\* C21: with c the number of times x matches in a row from the entry cursor
\* up to its first failure or the end of data (hi does not stop the count),
\* Min(n,x) returns true iff c >= n and MinMax(lo,hi,x) iff lo <= c <= hi;
\* on true the cursor is after the c-th match, on false it is the cursor of
\* entry; Min1(x) and Min0(x) behave as Min(1,x) and Min(0,x).
C21_GreedyCounting ==
  (call.op = "X" /\ gram.k \in {"M", "MM", "M0", "M1"}
     /\ Matched(call.pre, gram.this, 0).n >= 0) =>
    LET g == Matched(call.pre, gram.this, 0)
    IN /\ halt = ""
       /\ call.ok = (Least <= g.n /\ (gram.k = "MM" => g.n <= gram.max))
       /\ call.ok => Cur = g.s.Cur
       /\ ~call.ok => Cur = call.pre.Cur
       /\ gram.k \in {"M0", "M1"} =>
            LET r == X(call.pre, [k |-> "M", min |-> Least, this |-> gram.this])
            IN call.ok = r.ok /\ Cur = r.s.Cur

RECURSIVE Chain(_, _, _)
\* x evaluated n times in a row from s, leaving off at the first failure:
\* ok tells whether all n matched, s is the scanner after the last match
Chain(s, x, n) ==
  IF n = 0 THEN [s |-> s, ok |-> TRUE]
  ELSE LET r == X(s, x) IN
       IF r.s.halt # "" \/ ~r.ok THEN [s |-> r.s, ok |-> FALSE]
       ELSE Chain(r.s, x, n - 1)

\* C22: Count(n,x) returns true iff x matches n times in a row from the
\* entry cursor; on true the cursor is after the n-th match, on false it is
\* the cursor of entry; Count(0,x) returns true and changes nothing.
C22_CountExactly ==
  (call.op = "X" /\ gram.k = "C"
     /\ Chain(call.pre, gram.this, gram.n).s.halt = "") =>
    LET c == Chain(call.pre, gram.this, gram.n)
    IN /\ halt = ""
       /\ call.ok = c.ok
       /\ call.ok => Cur = c.s.Cur
       /\ ~call.ok => Cur = call.pre.Cur
       /\ gram.n = 0 => call.ok /\ Self = call.pre

\* Count failed at its second round, after a first match had moved the cursor
C22_Witness ==
  /\ Failed
  /\ gram.k = "C"
  /\ gram.n >= 2
  /\ LET r == X(call.pre, gram.this)
     IN r.ok /\ Place(r.s.Cur) # Place(call.pre.Cur)

\* Count(0,x) returned
C22_WitnessNone ==
  /\ Succeeded
  /\ gram.k = "C"
  /\ gram.n = 0

\* C23: Opt never returns false; the first alternative that matches decides
\* the cursor; when no alternative matches, the cursor, the tree and the
\* error stack are those of entry.
C23_OptNeverFails ==
  (Returned /\ gram.k = "O") =>
    /\ call.ok
    /\ Winner # 0 => Cur = X(call.pre, gram.xs[Winner]).s.Cur
    /\ Winner = 0 => /\ Cur = call.pre.Cur
                     /\ TreeNow = TreeBefore
                     /\ Err = call.pre.Err

\* New was given an empty input or an input of a type it does not know
FailedInput(i) == i.t = "runes" \/ ("err" \notin DOMAIN i /\ i.b = <<>>)

\* C24: a scanner constructed from an empty input or from an input of an
\* unsupported type has exactly one error on its error stack, its cursor at
\* line 1, line rune 1, line byte 1, and a node stack that holds the tree
\* root alone; every later Scan on it returns false with the cursor at end
\* of data, and does not fault.
C24_ConstructionFailure ==
  /\ (call.op = "New" /\ FailedInput(call.arg)) =>
       /\ Len(Err) = 1
       /\ Cur.Line = 1 /\ Cur.LineRune = 1 /\ Cur.LineByte = 1
       /\ Cur.Byte = 0 /\ Cur.Next = 0
       /\ Nodes = <<Root>>
       /\ halt = ""
  /\ (call.op = "Scan" /\ Buf = <<>>) =>
       /\ ~call.ok
       /\ halt = ""
       /\ Cur.Rune = tkEOD
       /\ HasEOD(State)
       /\ Cur.Next = 0

\* Scan was called on the scanner New made of a []rune
C24_Witness ==
  /\ call.op = "Scan"
  /\ Buf = <<>>
  /\ Err # <<>>
  /\ Err[1].Msg = "buffer: unsupported type: %T"

\* n or what there is of it
AtMost(n, q) == SubSeq(q, 1, IF n < Len(q) THEN n ELSE Len(q))

\* C25: Peek(n) returns the string of the first min(n, r) runes from the
\* rune at Cur.Byte on, r being the number of runes from there to the end of
\* the buffer, and leaves the cursor, Last, State, the Snapped stack, the
\* error stack and the tree as they were.
C25_PeekIsPureRead ==
  call.op = "Peek" =>
    /\ halt = ""
    /\ Runes(call.out, 0) = AtMost(call.arg, Runes(Buf, Cur.Byte))
    /\ Self = call.pre

\* Peek returned fewer runes than asked for, from a cursor past the first
\* rune, over a tree that holds a parsed node
C25_Witness ==
  /\ call.op = "Peek"
  /\ Cur.Byte > 0
  /\ Len(Runes(call.out, 0)) > 0
  /\ Len(Runes(call.out, 0)) < call.arg
  /\ Heap[Root].N # <<>>

\* C26: after construction and after every return of X the node stack is
\* not empty, is as deep as it was when X was entered, and its bottom
\* element is the node that is the scanner's tree root.
C26_NodeStackInvariant ==
  (call.op = "New" \/ Returned) =>
    /\ Nodes # <<>>
    /\ Returned => Len(Nodes) = Len(call.pre.Nodes)
    /\ Nodes[1] = Root

\* C27: whatever X calls came before on the scanner, those that returned
\* false included, a top-level X(Parse(tag,x)) that returns true leaves the
\* node it made as the last child of the scanner's tree root.
C27_ParseSurvivesFailures ==
  (Succeeded /\ gram.k = "P") =>
    LET kids == Heap[Root].N
    IN /\ kids # <<>>
       /\ kids[Len(kids)] = Len(call.pre.Heap) + 1

\* C28: the EOD bit of State is set exactly when the scanner is at end of
\* data, its current rune being the EOD sentinel; after a Jump or a Back to
\* a cursor whose Next is less than the buffer length the bit is clear.
C28_EODBitFollowsCursor ==
  /\ HasEOD(State) <=> Cur.Rune = tkEOD
  /\ (call.op \in {"Jump", "Back"} /\ Cur.Next < BufLen) => ~HasEOD(State)

\* the bounds of a cursor over the buffer
InBounds(c) ==
  /\ 0 <= c.Byte /\ c.Byte <= c.Next /\ c.Next <= BufLen
  /\ c.Next - c.Byte = c.Len
  /\ 1 <= c.Len /\ c.Len <= 4

\* C29: on a scanner constructed without error, after any Scan, Any, Mark,
\* Jump to a cursor marked on it, Snap, Back and X calls,
\* 0 <= Byte <= Next <= BufLen, Next - Byte = Len and 1 <= Len <= 4 hold of
\* the current cursor, of Last and of every cursor kept for a Jump or a
\* Back, so that Scan, which reads Buf[Next] unless Next = BufLen, and Peek,
\* which reads from Byte on, stay inside the buffer; no call faults.
C29_CursorBounds ==
  /\ InBounds(Cur)
  /\ Last # Nil => InBounds(Last)
  /\ \A i \in 1..Len(marks) : InBounds(marks[i].c)
  /\ \A i \in 1..Len(Snapped) : InBounds(Snapped[i])
  /\ halt = ""

\* the scanner jumped back onto a rune of two bytes after it had met the
\* end of the buffer
C29_Witness ==
  /\ call.op \in {"Jump", "Back"}
  /\ call.pre.Cur.Rune = tkEOD
  /\ Cur.Rune # tkEOD
  /\ Cur.Len = 2
  /\ Cur.Byte > 0
  /\ Cur.Next = BufLen

\* the position counters of a cursor
Counters(c) == <<c.Line, c.LineRune, c.LineByte, c.PosRune>>

\* C30: a Scan that returns true adds 1 to the rune counter and to the line
\* rune counter and adds the byte length of the rune it leaves to the line
\* byte counter; a Scan that returns false changes no counter; and so, with
\* no NewLine, in every state Line = 1, LineRune = the rune counter >= 1
\* and LineByte = Byte + 1.
C30_PositionCounters ==
  /\ (call.op = "Scan" /\ call.ok) =>
       /\ Cur.PosRune = call.pre.Cur.PosRune + 1
       /\ Cur.LineRune = call.pre.Cur.LineRune + 1
       /\ Cur.LineByte = call.pre.Cur.LineByte + call.pre.Cur.Len
       /\ Cur.Line = call.pre.Cur.Line
  /\ (call.op = "Scan" /\ ~call.ok) => Counters(Cur) = Counters(call.pre.Cur)
  /\ Cur.Line = 1
  /\ Cur.LineRune = Cur.PosRune
  /\ Cur.PosRune >= 1
  /\ Cur.LineByte = Cur.Byte + 1

\* Scan went from a rune of two bytes to a rune of one byte
C30_Witness ==
  /\ call.op = "Scan"
  /\ call.ok
  /\ call.pre.Cur.Len = 2
  /\ Cur.Len = 1
  /\ Cur.Rune = 97

\* C31 as stated: Last is the cursor as it was before the most recent Scan
\* that returned true; a Scan that returns false, a Jump and a Back leave
\* Last as it was.
C31_LastBeforeSuccessfulScan ==
  /\ (call.op = "Scan" /\ call.ok) => Last = call.pre.Cur
  /\ (call.op = "Scan" /\ ~call.ok) => Last = call.pre.Last
  /\ call.op \in {"Jump", "Back"} => Last = call.pre.Last

\* C31 amended: Last is the cursor as it was before the most recent call of
\* Scan, whether that Scan returned true or false; Mark, Jump, Snap and
\* Back leave Last as it was.
C31_LastBeforeScan ==
  /\ call.op = "Scan" => Last = call.pre.Cur
  /\ (call.op = "X" /\ gram = Rn(tkANY)) => Last = call.pre.Cur
  /\ call.op \in {"Mark", "Jump", "Snap", "Back"} => Last = call.pre.Last

\* a Scan returned false on the last rune of the buffer after a Scan that
\* had returned true: Last is the cursor on the last rune
C31_Witness ==
  /\ call.op = "Scan"
  /\ ~call.ok
  /\ call.pre.Cur.Rune # tkEOD
  /\ call.pre.Last # Nil
  /\ Last # call.pre.Last

\* C32: X of a rune expression, a literal rune or tk.ANY, returns true only
\* if the scanner is not at end of data on entry, and then the cursor is
\* past the one rune it was on; it never returns true with the cursor where
\* it was.
C32_RuneMatchAdvances ==
  (Succeeded /\ gram.k = "rune") =>
    /\ call.pre.Cur.Rune # tkEOD
    /\ Off(Cur) = call.pre.Cur.Next
    /\ Place(Cur) # Place(call.pre.Cur)

\* C33: tk.ANY and tk.EOD being different sentinels, X(tk.EOD) returns true
\* only when the current rune is the EOD sentinel, and never on a rune of
\* the buffer, which it would consume.
C33_EODMatchesOnlyEOD ==
  (Succeeded /\ gram.k = "rune" /\ gram.r = tkEOD) =>
    /\ call.pre.Cur.Rune = tkEOD
    /\ Place(Cur) = Place(call.pre.Cur)

RECURSIVE HasParse(_)
\* a z.P occurs in the expression, at any depth
HasParse(e) ==
  \/ e.k = "P"
  \/ "xs" \in DOMAIN e /\ \E i \in 1..Len(e.xs) : HasParse(e.xs[i])
  \/ "this" \in DOMAIN e /\ HasParse(e.this)

\* C34: a lookahead, z.Y or z.N, that holds a z.P at any depth returns false
\* and appends no node to the tree.
C34_ParseInLookaheadFails ==
  (Returned /\ gram.k \in {"Y", "N"} /\ HasParse(gram)) =>
    /\ ~call.ok
    /\ TreeNow = TreeBefore

\* the expression types that push an error of their own when they fail
OwnError == {"rune", "string", "I", "N", "T", "Ti", "R", "M", "M0", "M1", "MM", "C"}

\* C35: when an expression that pushes its own error fails, the cursor kept
\* in that error, the one on top of the error stack, is the cursor the
\* expression was entered at, which is also the scanner's cursor after the
\* call.
C35_ErrorAtRestoredCursor ==
  (Failed /\ gram.k \in OwnError) =>
    /\ Err # <<>>
    /\ Err[Len(Err)].At = call.pre.Cur
    /\ Cur = call.pre.Cur

\* C36: String(), Print() and Log() leave the error stack, the cursor and
\* the tree as they were, with or without errors on the stack, so that the
\* scanner printed once more gives the same text.
C36_RenderingNonDestructive ==
  call.op = "String" =>
    /\ Err = call.pre.Err
    /\ Cur = call.pre.Cur
    /\ TreeNow = TreeBefore
    /\ String(Self).out = call.out

\* C37: an X call pops no error but those pushed during the call: after it
\* the error stack is at least as deep as at entry and begins with the
\* entries it had at entry, and ClearLastError is never run on an empty
\* stack (which faults; with no z.P in the expression nothing else does).
C37_OnlyOwnErrorsPopped ==
  call.op = "X" =>
    /\ ~HasParse(gram) => halt # "panic"
    /\ halt = "" => /\ Len(Err) >= Len(call.pre.Err)
                    /\ SubSeq(Err, 1, Len(call.pre.Err)) = call.pre.Err

\* the expression inside the z.P of the last call matches at the entry
\* cursor without consuming a rune
ZeroWidthInside ==
  LET r == X(call.pre, gram.this)
  IN r.s.halt = "" /\ r.ok /\ Place(r.s.Cur) = Place(call.pre.Cur)

\* C38: X(Parse(tag,x)) with an x that matches without consuming a rune
\* returns true without a fault and appends a node whose value is the empty
\* string, also on a scanner on which no Scan was called yet.
C38_ZeroWidthParseSafe ==
  (call.op = "X" /\ gram.k = "P" /\ ZeroWidthInside) =>
    /\ halt = ""
    /\ call.ok
    /\ Len(Heap) > Len(call.pre.Heap)
    /\ Heap[Len(call.pre.Heap) + 1].V = <<>>

\* C39: Scan takes the rune to be the byte at Cur.Next, with length 1,
\* exactly when that byte is less than 0x80; every byte from 0x80 on, 0x80
\* included, is decoded as UTF-8.
C39_FastPathBoundary ==
  (call.op = "Scan" /\ call.ok) =>
    LET at == call.pre.Cur.Next
        b == Buf[at + 1]
        d == DecodeRune(Buf, at)
    IN IF b < RuneSelf
       THEN Cur.Rune = b /\ Cur.Len = 1
       ELSE Cur.Rune = d.r /\ Cur.Len = d.ln

====
